---- MODULE Spec2Model ----
(***************************************************************************)
(* Book catalogue: BookService over BookRepository over one table "books". *)
(* The repository has two sources in the tree: the pgx repository in       *)
(* infrastructure/db/postgres/book_repository.go and the one in            *)
(* unnamed/part_001.  Both define the same type, so a build links exactly  *)
(* one of them; the variable impl records which.                           *)
(*                                                                         *)
(* Spec runs the service one request at a time (last is the request being  *)
(* answered).  Concurrent runs two clients whose operations interleave at  *)
(* their storage statements over one connection pool (inflight, free).     *)
(***************************************************************************)
EXTENDS Integers, Sequences, FiniteSets, TLC

VARIABLES impl, rows, nextId, now, last, inflight, free

vars == <<impl, rows, nextId, now, last, inflight, free>>

\* ---------------------------------------------------------------- bounds
MaxIds == 2
MaxTime == 2
PoolMaxConns == 2

\* ------------------------------------------------------ program constants
MinPages == 5
MaxTitleLen == 200
DefaultPageSize == 20
MaxPageSize == 100
StatusBadRequest == 400
StatusNotFound == 404
StatusConflict == 409
StatusGatewayTimeout == 504
StatusInternalServerError == 500

\* ------------------------------------------------------------ input sets
LongTitle == "xxxxxxxxxxxxxxxxxxxxxxxxxxxxxxxxxxxxxxxxxxxxxxxxxxxxxxxxxxxxxxxxxxxxxxxxxxxxxxxxxxxxxxxxxxxxxxxxxxxxxxxxxxxxxxxxxxxxxxxxxxxxxxxxxxxxxxxxxxxxxxxxxxxxxxxxxxxxxxxxxxxxxxxxxxxxxxxxxxxxxxxxxxxxxxxxxxxxxxxxx"
Impls == {"book_repository", "part_001"}
CreateAuthors == {"Herbert"}
UpdateAuthors == {"", "Austen"}
CreateDates == {"1965-08-01", "1965-8-1"}
UpdateDates == {"", "1815-12-23"}
ISBNs == {"9780441013593", "9780141439587"}
UpdateISBNs == {"", "9780141439587"}
CreatePages == {-1, 0, 4, 5}
UpdatePages == {-1, 0, 4, 7}
BookIDs == -1 .. MaxIds
Faults == {"ok", "deadline"}
PageSizes == {0, 1, 101}
TieOrders == {"asc", "desc"}

\* ------------------------------------------------------------------- int
\* A Go int (64 bits, two's complement) as four limbs of 16 bits, the most
\* significant first; arithmetic wraps as Go's does.
Limb == 65536
SignLimb == 32768

Int64(n) ==
    <<(((n \div Limb) \div Limb) \div Limb) % Limb, ((n \div Limb) \div Limb) % Limb,
      (n \div Limb) % Limb, n % Limb>>

\* What strconv.Atoi returns (with an error the handler drops) for a number
\* above the range of int.
MaxInt64 == <<SignLimb - 1, Limb - 1, Limb - 1, Limb - 1>>

IsNeg64(a) == a[1] >= SignLimb

Add64(a, b) ==
    LET s4 == a[4] + b[4]
        s3 == a[3] + b[3] + s4 \div Limb
        s2 == a[2] + b[2] + s3 \div Limb
        s1 == a[1] + b[1] + s2 \div Limb
    IN  <<s1 % Limb, s2 % Limb, s3 % Limb, s4 % Limb>>

\* a * k for 0 <= k < Limb
Mul64(a, k) ==
    LET p4 == a[4] * k
        p3 == a[3] * k + p4 \div Limb
        p2 == a[2] * k + p3 \div Limb
        p1 == a[1] * k + p2 \div Limb
    IN  <<p1 % Limb, p2 % Limb, p3 % Limb, p4 % Limb>>

\* a < b
Lt64(a, b) ==
    LET ka == <<(a[1] + SignLimb) % Limb, a[2], a[3], a[4]>>
        kb == <<(b[1] + SignLimb) % Limb, b[2], b[3], b[4]>>
    IN  \E i \in 1 .. 4 : ka[i] < kb[i] /\ \A j \in 1 .. (i - 1) : ka[j] = kb[j]

\* The pages a caller asks for.
Pages == {Int64(0), Int64(1), Int64(2), MaxInt64}

\* ----------------------------------------------------------------- errors
\* An error value is the set of sentinel errors errors.Is finds in its chain;
\* nil is the empty set.
Nil == {}
SvcErrNotFound == "services.ErrNotFound"
SvcErrInvalidInput == "services.ErrInvalidInput"
SvcErrConflict == "services.ErrConflict"
ErrBookNotFound == "repositories.ErrBookNotFound"
ErrDuplicateISBN == "repositories.ErrDuplicateISBN"
ErrInvalidData == "repositories.ErrInvalidData"
ErrInvalidReference == "repositories.ErrInvalidReference"
DeadlineExceeded == "context.DeadlineExceeded"
PgError == "pgconn.PgError"
RepoErrors == {ErrBookNotFound, ErrDuplicateISBN, ErrInvalidData, ErrInvalidReference}

\* fmt.Errorf: a new error value whose chain continues with the errors given to
\* its %w verbs (none for %v and %s).
Errorf(wrapped) == {"fmt.Errorf"} \cup wrapped

ErrorsIs(err, target) == target \in err
\* ---------------------------------------------------------------- storage
\* A row of table books; deleted_at = NULL is the SQL NULL.  The table is the
\* sequence of its rows in insertion order.
NULL == 0
UniqueViolationCode == "23505"
ForeignKeyViolationCode == "23503"

Live(r) == r.deleted_at = NULL

\* A date column holds a calendar date, not the text that was sent.
ParseDate(s) ==
    CASE s = "1965-08-01" -> <<1965, 8, 1>>
      [] s = "1965-8-1" -> <<1965, 8, 1>>
      [] s = "1815-12-23" -> <<1815, 12, 23>>

Pad2(n) == IF n < 10 THEN "0" \o ToString(n) ELSE ToString(n)

\* pubDate.Format("2006-01-02")
FormatDate(d) == ToString(d[1]) \o "-" \o Pad2(d[2]) \o "-" \o Pad2(d[3])

\* The unique index on isbn, scoped to live rows: would a row with this isbn
\* (other than the row self) break it?
UniqueViolation(tbl, isbn, self) ==
    \E i \in DOMAIN tbl : Live(tbl[i]) /\ tbl[i].isbn = isbn /\ tbl[i].id # self

\* The error chain of a failed statement: a server error is a *pgconn.PgError,
\* an expired context is context.DeadlineExceeded.
SqlErr(f) == IF f = "deadline" THEN {DeadlineExceeded} ELSE {PgError}

IndexOf(tbl, id) == {i \in DOMAIN tbl : tbl[i].id = id}

RemoveAt(tbl, i) == [j \in 1 .. (Len(tbl) - 1) |-> IF j < i THEN tbl[j] ELSE tbl[j + 1]]

\* models.Book as scanned from a row
BookOf(r) ==
    [id |-> r.id, title |-> r.title, author |-> r.author,
     published |-> FormatDate(r.published), isbn |-> r.isbn, pages |-> r.pages,
     created_at |-> r.created_at, updated_at |-> r.updated_at]

\* ------------------------------------------------------------- repository
\* Every repository operation takes the table (tbl), the id sequence (seq),
\* NOW() (t) and the outcome of its statement (f), and returns the error, the
\* table and sequence afterwards, and what it hands back.

\* The id column's default: the next value of a sequence that starts at
\* FirstId; a value once drawn is never handed out again.
FirstId == 1

NextVal(seq) == seq + 1

\* The INSERT on a table without the index on isbn.
RepoCreateBook_noIndex(tbl, seq, t, book, f) ==
    IF f # "ok"
    THEN [err |-> Errorf(SqlErr(f)), rows |-> tbl, seq |-> seq, book |-> book]
    ELSE [err |-> Nil,
          rows |-> Append(tbl,
                     [id |-> seq, title |-> book.title, author |-> book.author,
                      published |-> ParseDate(book.published), isbn |-> book.isbn,
                      pages |-> book.pages, created_at |-> t, updated_at |-> t,
                      deleted_at |-> NULL]),
          seq |-> NextVal(seq),
          book |-> [book EXCEPT !.id = seq, !.created_at = t, !.updated_at = t]]

\* INSERT ... RETURNING id, created_at, updated_at (the same in both sources).
\* The id default is drawn before the index is checked, so a rejected insert
\* still consumes an id.
RepoCreateBook(tbl, seq, t, book, f) ==
    LET sqlerr == IF f # "ok" THEN f
                  ELSE IF UniqueViolation(tbl, book.isbn, 0) THEN UniqueViolationCode
                  ELSE "ok"
    IN  IF sqlerr = UniqueViolationCode
        THEN [err |-> {ErrDuplicateISBN}, rows |-> tbl, seq |-> NextVal(seq), book |-> book]
        ELSE IF sqlerr = ForeignKeyViolationCode
        THEN [err |-> Errorf({ErrInvalidReference}), rows |-> tbl, seq |-> NextVal(seq), book |-> book]
        ELSE IF sqlerr # "ok"
        THEN [err |-> Errorf(SqlErr(sqlerr)), rows |-> tbl, seq |-> seq, book |-> book]
        ELSE [err |-> Nil,
              rows |-> Append(tbl,
                         [id |-> seq, title |-> book.title, author |-> book.author,
                          published |-> ParseDate(book.published), isbn |-> book.isbn,
                          pages |-> book.pages, created_at |-> t, updated_at |-> t,
                          deleted_at |-> NULL]),
              seq |-> NextVal(seq),
              book |-> [book EXCEPT !.id = seq, !.created_at = t, !.updated_at = t]]

\* SELECT ... WHERE id = $1, published scanned as a date and formatted.
RepoGetByBookID(tbl, id, f) ==
    IF f # "ok" THEN [err |-> Errorf(SqlErr(f)), book |-> <<>>]
    ELSE IF IndexOf(tbl, id) = {} THEN [err |-> {ErrBookNotFound}, book |-> <<>>]
    ELSE [err |-> Nil, book |-> <<BookOf(tbl[CHOOSE i \in IndexOf(tbl, id) : TRUE])>>]

\* SELECT ... WHERE id = $1 AND deleted_at IS NULL, with $1 bound to book.ID of
\* the freshly declared (zero) book, not to the parameter id.
RepoGetByBookID_p1(tbl, id, f) ==
    LET key == 0
        hit == {i \in IndexOf(tbl, key) : Live(tbl[i])}
    IN  IF f # "ok" THEN [err |-> Errorf(SqlErr(f)), book |-> <<>>]
        ELSE IF hit = {} THEN [err |-> {ErrBookNotFound}, book |-> <<>>]
        ELSE [err |-> Nil, book |-> <<BookOf(tbl[CHOOSE i \in hit : TRUE])>>]
\* ORDER BY created_at DESC.  The statement names no second key, so the order
\* of rows with equal created_at is the engine's: o is the order it takes for
\* them in this execution, by table position ascending or descending.
Rank(tbl, i, o) ==
    1 + Cardinality({j \in DOMAIN tbl :
                       \/ tbl[j].created_at > tbl[i].created_at
                       \/ /\ tbl[j].created_at = tbl[i].created_at
                          /\ IF o = "asc" THEN j < i ELSE j > i})

OrderByCreatedDesc(tbl, o) ==
    [k \in DOMAIN tbl |-> tbl[CHOOSE i \in DOMAIN tbl : Rank(tbl, i, o) = k]]

\* offset := (page - 1) * pageSize, in int arithmetic.
Offset(page, pageSize) == Mul64(Add64(page, Int64(-1)), pageSize)

\* The rows OFFSET skips of a result of n rows: all of them when the offset is
\* beyond what a table can hold.
Skip(offset, n) ==
    IF offset[1] = 0 /\ offset[2] = 0 /\ offset[3] = 0 /\ offset[4] < n THEN offset[4] ELSE n

\* The outcome of the page statement: the server rejects a negative OFFSET.
PageStmt(offset, f) == IF f = "ok" /\ IsNeg64(offset) THEN "2201X" ELSE f

\* LIMIT $1 OFFSET $2
LimitOffset(s, limit, offset) ==
    SubSeq(s, offset + 1, IF offset + limit < Len(s) THEN offset + limit ELSE Len(s))

BooksOf(s) == [k \in DOMAIN s |-> BookOf(s[k])]

\* SELECT COUNT(*) FROM books, then the page; f1 and f2 are the outcomes of the
\* two reads.
RepoFetchAllBook(tbl, page, pageSize, f1, f2, o) ==
    LET offset == Offset(page, pageSize)
        g2 == PageStmt(offset, f2)
    IN  IF f1 # "ok" THEN [err |-> Errorf({}), books |-> <<>>, total |-> 0]
        ELSE IF g2 # "ok" THEN [err |-> Errorf(SqlErr(g2)), books |-> <<>>, total |-> 0]
        ELSE [err |-> Nil,
              books |-> BooksOf(LimitOffset(OrderByCreatedDesc(tbl, o), pageSize,
                                            Skip(offset, Len(tbl)))),
              total |-> Len(tbl)]

\* The same two reads restricted to deleted_at IS NULL; the count error is
\* wrapped with %w.
RepoFetchAllBook_p1(tbl, page, pageSize, f1, f2, o) ==
    LET offset == Offset(page, pageSize)
        g2 == PageStmt(offset, f2)
        live == SelectSeq(tbl, Live)
    IN  IF f1 # "ok" THEN [err |-> Errorf(SqlErr(f1)), books |-> <<>>, total |-> 0]
        ELSE IF g2 # "ok" THEN [err |-> Errorf(SqlErr(g2)), books |-> <<>>, total |-> 0]
        ELSE [err |-> Nil,
              books |-> BooksOf(LimitOffset(OrderByCreatedDesc(live, o), pageSize,
                                            Skip(offset, Len(live)))),
              total |-> Len(live)]

\* The row of an UPDATE that does not write the title.
UpdatedRow_titleKept(r, book, t) ==
    [r EXCEPT !.author = book.author, !.published = ParseDate(book.published),
              !.isbn = book.isbn, !.pages = book.pages, !.updated_at = t]

\* The row an UPDATE ... SET title, author, published, isbn, pages, updated_at
\* writes.
UpdatedRow(r, book, t) ==
    [r EXCEPT !.title = book.title, !.author = book.author,
              !.published = ParseDate(book.published), !.isbn = book.isbn,
              !.pages = book.pages, !.updated_at = t]

UpdateWhere(tbl, hit, book, t, f) ==
    IF f # "ok" THEN [err |-> Errorf(SqlErr(f)), rows |-> tbl, book |-> book]
    ELSE IF hit = {} THEN [err |-> {ErrBookNotFound}, rows |-> tbl, book |-> book]
    ELSE IF UniqueViolation(tbl, book.isbn, book.id)
    THEN [err |-> Errorf(SqlErr(UniqueViolationCode)), rows |-> tbl, book |-> book]
    ELSE [err |-> Nil,
          rows |-> [i \in DOMAIN tbl |-> IF i \in hit THEN UpdatedRow(tbl[i], book, t) ELSE tbl[i]],
          book |-> [book EXCEPT !.updated_at = t]]

\* The same UPDATE without its WHERE clause: every row is written.
RepoUpdateBook_noWhere(tbl, t, book, f) == UpdateWhere(tbl, DOMAIN tbl, book, t, f)

\* UPDATE books SET ... WHERE id = $6 RETURNING updated_at
RepoUpdateBook(tbl, t, book, f) == UpdateWhere(tbl, IndexOf(tbl, book.id), book, t, f)

\* UPDATE books SET ... WHERE id = $6 AND deleted_at IS NULL RETURNING updated_at
RepoUpdateBook_p1(tbl, t, book, f) ==
    UpdateWhere(tbl, {i \in IndexOf(tbl, book.id) : Live(tbl[i])}, book, t, f)

\* The same without the Commit: the deferred Rollback undoes the DELETE.
RepoDeleteBook_noCommit(tbl, t, id, f) ==
    IF f # "ok" THEN [err |-> Errorf(SqlErr(f)), rows |-> tbl]
    ELSE IF IndexOf(tbl, id) = {} THEN [err |-> {ErrBookNotFound}, rows |-> tbl]
    ELSE [err |-> Nil, rows |-> tbl]

\* Begin; DELETE FROM books WHERE id = $1; no row affected: ErrBookNotFound and
\* the deferred Rollback; else Commit.  f is the outcome of Begin/Exec/Commit.
RepoDeleteBook(tbl, t, id, f) ==
    IF f # "ok" THEN [err |-> Errorf(SqlErr(f)), rows |-> tbl]
    ELSE IF IndexOf(tbl, id) = {} THEN [err |-> {ErrBookNotFound}, rows |-> tbl]
    ELSE [err |-> Nil, rows |-> RemoveAt(tbl, CHOOSE i \in IndexOf(tbl, id) : TRUE)]

\* UPDATE books SET deleted_at = NOW() WHERE id = $1 AND deleted_at IS NULL, run
\* with QueryRow(...).Scan(&deletedID).  The statement returns no row (it has no
\* RETURNING), so Scan ends with pgx.ErrNoRows whether or not a row was updated.
RepoDeleteBook_p1(tbl, t, id, f) ==
    IF f # "ok" THEN [err |-> Errorf(SqlErr(f)), rows |-> tbl]
    ELSE [err |-> {ErrBookNotFound},
          rows |-> [i \in DOMAIN tbl |->
                      IF tbl[i].id = id /\ Live(tbl[i])
                      THEN [tbl[i] EXCEPT !.deleted_at = t] ELSE tbl[i]]]

\* repositories.BookRepository, bound to the source that impl names.
Repo_CreateBook(i, tbl, seq, t, book, f) == RepoCreateBook(tbl, seq, t, book, f)

Repo_GetByBookID(i, tbl, id, f) ==
    IF i = "part_001" THEN RepoGetByBookID_p1(tbl, id, f) ELSE RepoGetByBookID(tbl, id, f)

Repo_FetchAllBook(i, tbl, page, pageSize, f1, f2, o) ==
    IF i = "part_001" THEN RepoFetchAllBook_p1(tbl, page, pageSize, f1, f2, o)
    ELSE RepoFetchAllBook(tbl, page, pageSize, f1, f2, o)

Repo_UpdateBook(i, tbl, t, book, f) ==
    IF i = "part_001" THEN RepoUpdateBook_p1(tbl, t, book, f) ELSE RepoUpdateBook(tbl, t, book, f)

Repo_DeleteBook(i, tbl, t, id, f) ==
    IF i = "part_001" THEN RepoDeleteBook_p1(tbl, t, id, f) ELSE RepoDeleteBook(tbl, t, id, f)
\* ---------------------------------------------------------------- service
ZeroTime == 0

validateBookCreateRequest(req) ==
    IF req.title = "" THEN "title is required"
    ELSE IF Len(req.title) > MaxTitleLen THEN "title too long"
    ELSE "ok"

validateBookUpdateRequest(req) ==
    IF req.title # "" /\ Len(req.title) > MaxTitleLen THEN "title too long" ELSE "ok"

\* The page-count rule of CreateBook, with the bound one too low.
TooFewPages_offByOne(book) == book.pages < MinPages - 1

\* book.Pages < 5
TooFewPages(book) == book.pages < MinPages

\* Each service operation returns its error, the book it hands back (<<>> for
\* nil), the table and id sequence afterwards, and the repository calls it made.
SvcCreateBook(i, tbl, seq, t, req, f) ==
    LET book == [id |-> 0, title |-> req.title, author |-> req.author,
                 published |-> req.published, isbn |-> req.isbn, pages |-> req.pages,
                 created_at |-> ZeroTime, updated_at |-> ZeroTime]
        r == Repo_CreateBook(i, tbl, seq, t, book, f)
    IN  IF validateBookCreateRequest(req) # "ok"
        THEN [err |-> Errorf({SvcErrInvalidInput}), book |-> <<>>, rows |-> tbl, seq |-> seq,
              calls |-> <<>>]
        ELSE IF TooFewPages(book)
        THEN [err |-> Errorf({SvcErrInvalidInput}), book |-> <<>>, rows |-> tbl, seq |-> seq,
              calls |-> <<>>]
        ELSE IF r.err # Nil
        THEN [err |-> Errorf(r.err), book |-> <<>>, rows |-> r.rows, seq |-> r.seq,
              calls |-> <<"CreateBook">>]
        ELSE [err |-> Nil, book |-> <<r.book>>, rows |-> r.rows, seq |-> r.seq,
              calls |-> <<"CreateBook">>]

\* The same without the translation of ErrBookNotFound.
SvcGetByBookID_unmapped(i, tbl, id, f) ==
    LET r == Repo_GetByBookID(i, tbl, id, f)
    IN  IF id <= 0
        THEN [err |-> Errorf({ErrInvalidData}), book |-> <<>>, calls |-> <<>>]
        ELSE IF r.err # Nil
        THEN [err |-> Errorf(r.err), book |-> <<>>, calls |-> <<"GetByBookID">>]
        ELSE [err |-> Nil, book |-> r.book, calls |-> <<"GetByBookID">>]

SvcGetByBookID(i, tbl, id, f) ==
    LET r == Repo_GetByBookID(i, tbl, id, f)
    IN  IF id <= 0
        THEN [err |-> Errorf({ErrInvalidData}), book |-> <<>>, calls |-> <<>>]
        ELSE IF r.err # Nil
        THEN [err |-> IF ErrorsIs(r.err, ErrBookNotFound) THEN {SvcErrNotFound}
                      ELSE Errorf(r.err),
              book |-> <<>>, calls |-> <<"GetByBookID">>]
        ELSE [err |-> Nil, book |-> r.book, calls |-> <<"GetByBookID">>]

SvcFetchAllBook(i, tbl, page, pageSize, f1, f2, o) ==
    LET p == IF Lt64(page, Int64(1)) THEN Int64(1) ELSE page
        ps == IF pageSize < 1 \/ pageSize > MaxPageSize THEN DefaultPageSize ELSE pageSize
        r == Repo_FetchAllBook(i, tbl, p, ps, f1, f2, o)
    IN  IF r.err # Nil
        THEN [err |-> Errorf(r.err), books |-> <<>>, total |-> 0, page |-> p, pageSize |-> ps]
        ELSE [err |-> Nil, books |-> r.books, total |-> r.total, page |-> p, pageSize |-> ps]

\* The merge of the request over the loaded book (lines 96-107).
Merge(book, req) ==
    LET b1 == IF req.title # "" THEN [book EXCEPT !.title = req.title] ELSE book
        b2 == IF req.author # "" THEN [b1 EXCEPT !.author = req.author] ELSE b1
        b3 == IF req.isbn # "" THEN [b2 EXCEPT !.isbn = req.isbn] ELSE b2
    IN  IF req.pages <= 0 THEN [b3 EXCEPT !.pages = req.pages] ELSE b3

SvcUpdateBook(i, tbl, t, id, req, f1, f2) ==
    LET g == Repo_GetByBookID(i, tbl, id, f1)
        book == Merge(g.book[1], req)
        u == Repo_UpdateBook(i, tbl, t, book, f2)
    IN  IF id <= 0
        THEN [err |-> Errorf({SvcErrInvalidInput}), book |-> <<>>, rows |-> tbl, calls |-> <<>>]
        ELSE IF validateBookUpdateRequest(req) # "ok"
        THEN [err |-> Errorf({SvcErrInvalidInput}), book |-> <<>>, rows |-> tbl, calls |-> <<>>]
        ELSE IF g.err # Nil
        THEN [err |-> IF ErrorsIs(g.err, ErrBookNotFound) THEN {SvcErrNotFound}
                      ELSE Errorf(g.err),
              book |-> <<>>, rows |-> tbl, calls |-> <<"GetByBookID">>]
        ELSE IF u.err # Nil
        THEN [err |-> Errorf(u.err), book |-> <<>>, rows |-> u.rows,
              calls |-> <<"GetByBookID", "UpdateBook">>]
        ELSE [err |-> Nil, book |-> <<u.book>>, rows |-> u.rows,
              calls |-> <<"GetByBookID", "UpdateBook">>]

SvcDeleteBook(i, tbl, t, id, f1, f2) ==
    LET g == Repo_GetByBookID(i, tbl, id, f1)
        d == Repo_DeleteBook(i, tbl, t, id, f2)
    IN  IF id <= 0
        THEN [err |-> Errorf({SvcErrInvalidInput}), rows |-> tbl, calls |-> <<>>]
        ELSE IF g.err # Nil
        THEN [err |-> IF ErrorsIs(g.err, ErrBookNotFound) THEN {SvcErrNotFound}
                      ELSE Errorf(g.err),
              rows |-> tbl, calls |-> <<"GetByBookID">>]
        ELSE IF d.err # Nil
        THEN [err |-> Errorf(d.err), rows |-> d.rows, calls |-> <<"GetByBookID", "DeleteBook">>]
        ELSE [err |-> Nil, rows |-> d.rows, calls |-> <<"GetByBookID", "DeleteBook">>]

\* -------------------------------------------------------------- transport
\* The status handleServiceError answers with: the first case of its switch
\* that errors.Is matches.
handleServiceError(err) ==
    IF ErrorsIs(err, SvcErrNotFound) THEN StatusNotFound
    ELSE IF ErrorsIs(err, SvcErrInvalidInput) THEN StatusBadRequest
    ELSE IF ErrorsIs(err, SvcErrConflict) THEN StatusConflict
    ELSE IF ErrorsIs(err, DeadlineExceeded) THEN StatusGatewayTimeout
    ELSE StatusInternalServerError

\* ------------------------------------------------------------ state machine
NoReq == [title |-> "", author |-> "", published |-> "", isbn |-> "", pages |-> 0]

\* Requests with a title the validators accept, in every combination of the
\* other fields, and requests with a title they reject.
CreateRequests ==
    [title : {"Dune"}, author : CreateAuthors, published : CreateDates,
     isbn : ISBNs, pages : CreatePages]
    \cup [title : {"", LongTitle}, author : CreateAuthors, published : {"1965-08-01"},
          isbn : {"9780441013593"}, pages : CreatePages]

\* Every combination of omitted and supplied fields, and of titles and pages in
\* and out of range.
AllUpdateRequests ==
    [title : {"", "Emma", LongTitle}, author : UpdateAuthors, published : UpdateDates,
     isbn : UpdateISBNs, pages : UpdatePages]

\* The requests the state machine sends: nothing supplied, one field supplied,
\* every field supplied.
UpdateRequests ==
    {req \in AllUpdateRequests :
        \/ Cardinality({k \in DOMAIN req : req[k] # NoReq[k]}) <= 1 /\ req.pages >= 0
        \/ req = [title |-> "Emma", author |-> "Austen", published |-> "1815-12-23",
                  isbn |-> "9780141439587", pages |-> 7]}

Idle ==
    [op |-> "none", id |-> 0, req |-> NoReq, err |-> Nil, book |-> <<>>,
     books |-> <<>>, total |-> 0, args |-> <<>>, page |-> Int64(0), pageSize |-> 0,
     calls |-> <<>>, faults |-> <<>>]

\* The outcomes of the two statements of an operation: at most one fails.
Faults2 == {ff \in Faults \X Faults : ff[1] = "ok" \/ ff[2] = "ok"}

NoStmtFails(ff) == \A k \in DOMAIN ff : ff[k] = "ok"

\* The outcomes of the statements an operation got to run: n of them, or those
\* up to the first that failed.
Ran(ff, n) == SubSeq(ff, 1, IF n >= 1 /\ ff[1] # "ok" THEN 1 ELSE n)

\* NOW() of a statement: now is the latest NOW() handed out, and the clock does
\* not run backwards.
Clock == {t \in {now, now + 1} : t <= MaxTime}

\* An id that is not positive is tried with the empty and the title-only request.
UpdateCalls ==
    {c \in BookIDs \X UpdateRequests :
        c[1] > 0 \/ c[2] \in {NoReq, [NoReq EXCEPT !.title = "Emma"]}}

\* The clients of the concurrent runs, and a client with no operation in flight.
\* Of an operation in flight: pc is the statement it is at, held the pool
\* connections it holds, tx its transaction, affected the rows its DELETE or
\* UPDATE matched, seen the table states between its first and last read, fresh
\* whether its ISBN was free (CreateBook) or its record live (DeleteBook) when
\* it was called, overlap whether it was in flight, its INSERT or DELETE still
\* to come, together with the other client's CreateBook of the same ISBN or
\* DeleteBook of the same id now in flight.
Clients == {"a", "b"}

NoCall ==
    [op |-> "none", pc |-> "idle", id |-> 0, req |-> NoReq, book |-> <<>>, err |-> Nil,
     held |-> 0, tx |-> "none", affected |-> 0, pageSize |-> 0, total |-> 0,
     books |-> <<>>, seen |-> {}, faults |-> <<>>, fresh |-> FALSE, overlap |-> FALSE]

\* The listings asked for: every page and page size with every order of ties
\* when storage answers, and the first page when one of the two reads fails.
FetchCalls ==
    {c \in Pages \X PageSizes \X Faults2 \X TieOrders :
        NoStmtFails(c[3]) \/ (c[1] = Int64(1) /\ c[2] = 1 /\ c[4] = "asc")}

Init ==
    /\ impl \in Impls
    /\ rows = <<>>
    /\ nextId = FirstId
    /\ now = 1
    /\ last = Idle
    /\ inflight = [p \in Clients |-> NoCall]
    /\ free = PoolMaxConns

\* The handler has written the response of the request in last.
Respond ==
    /\ last # Idle
    /\ last' = Idle
    /\ UNCHANGED <<impl, rows, nextId, now, inflight, free>>

CreateBook ==
    /\ last = Idle
    /\ nextId <= MaxIds
    /\ \E req \in CreateRequests, f \in Faults, t \in Clock :
            LET r == SvcCreateBook(impl, rows, nextId, t, req, f)
            IN  /\ rows' = r.rows
                /\ nextId' = r.seq
                /\ last' = [Idle EXCEPT !.op = "CreateBook", !.req = req, !.err = r.err,
                                        !.book = r.book, !.calls = r.calls,
                                        !.faults = Ran(<<f>>, Len(r.calls))]
                /\ now' = IF r.err = Nil THEN t ELSE now
                /\ UNCHANGED <<impl, inflight, free>>

GetByBookID ==
    /\ last = Idle
    /\ \E id \in BookIDs, f \in Faults :
            LET r == SvcGetByBookID(impl, rows, id, f)
            IN  /\ last' = [Idle EXCEPT !.op = "GetByBookID", !.id = id, !.err = r.err,
                                        !.book = r.book, !.calls = r.calls,
                                        !.faults = Ran(<<f>>, Len(r.calls))]
                /\ UNCHANGED <<impl, rows, nextId, now, inflight, free>>

FetchAllBook ==
    /\ last = Idle
    /\ \E c \in FetchCalls :
            LET page == c[1]
                pageSize == c[2]
                ff == c[3]
                r == SvcFetchAllBook(impl, rows, page, pageSize, ff[1], ff[2], c[4])
            IN  /\ last' = [Idle EXCEPT !.op = "FetchAllBook", !.err = r.err, !.books = r.books,
                                        !.total = r.total, !.args = <<page, pageSize>>,
                                        !.page = r.page,
                                        !.pageSize = r.pageSize, !.calls = <<"FetchAllBook">>,
                                        !.faults = Ran(ff, 2)]
                /\ UNCHANGED <<impl, rows, nextId, now, inflight, free>>

UpdateBook ==
    /\ last = Idle
    /\ \E c \in UpdateCalls, ff \in Faults2, t \in Clock :
            LET id == c[1]
                req == c[2]
                r == SvcUpdateBook(impl, rows, t, id, req, ff[1], ff[2])
            IN  /\ rows' = r.rows
                /\ last' = [Idle EXCEPT !.op = "UpdateBook", !.id = id, !.req = req,
                                        !.err = r.err, !.book = r.book, !.calls = r.calls,
                                        !.faults = Ran(ff, Len(r.calls))]
                /\ now' = IF r.err = Nil THEN t ELSE now
                /\ UNCHANGED <<impl, nextId, inflight, free>>

DeleteBook ==
    /\ last = Idle
    /\ \E id \in BookIDs, ff \in Faults2, t \in Clock :
            LET r == SvcDeleteBook(impl, rows, t, id, ff[1], ff[2])
            IN  /\ rows' = r.rows
                /\ last' = [Idle EXCEPT !.op = "DeleteBook", !.id = id, !.err = r.err,
                                        !.calls = r.calls, !.faults = Ran(ff, Len(r.calls))]
                /\ now' = IF r.rows # rows THEN t ELSE now
                /\ UNCHANGED <<impl, nextId, inflight, free>>

Next ==
    \/ CreateBook
    \/ GetByBookID
    \/ FetchAllBook
    \/ UpdateBook
    \/ DeleteBook
    \/ Respond

Spec == Init /\ [][Next]_vars

\* ------------------------------------------------------- concurrent clients
\* The statements of DeleteBook's transaction in book_repository.go.
\* tx.Exec of the DELETE: an error, or no row affected (ErrBookNotFound), ends
\* the method and the deferred Rollback ends the transaction.
DeleteExec(tbl, id, f) ==
    IF f # "ok" THEN [err |-> Errorf(SqlErr(f)), affected |-> 0, tx |-> "rolledback"]
    ELSE IF IndexOf(tbl, id) = {}
    THEN [err |-> {ErrBookNotFound}, affected |-> 0, tx |-> "rolledback"]
    ELSE [err |-> Nil, affected |-> Cardinality(IndexOf(tbl, id)), tx |-> "open"]

\* The same with the DELETE surviving a failed Commit.
DeleteCommit_kept(tbl, id, f) ==
    [err |-> IF f # "ok" THEN Errorf(SqlErr(f)) ELSE Nil,
     rows |-> RemoveAt(tbl, CHOOSE i \in IndexOf(tbl, id) : TRUE),
     tx |-> IF f # "ok" THEN "rolledback" ELSE "committed"]

\* tx.Commit: the DELETE takes effect; when Commit fails the deferred Rollback
\* undoes it.
DeleteCommit(tbl, id, f) ==
    IF f # "ok" THEN [err |-> Errorf(SqlErr(f)), rows |-> tbl, tx |-> "rolledback"]
    ELSE [err |-> Nil, rows |-> RemoveAt(tbl, CHOOSE i \in IndexOf(tbl, id) : TRUE),
          tx |-> "committed"]

\* The service's translation of the error of its GetByBookID call.
LoadErr(err) == IF ErrorsIs(err, ErrBookNotFound) THEN {SvcErrNotFound} ELSE Errorf(err)

\* What the caller gets for repository error err: the service wraps it, a
\* direct caller of the repository gets it as it is.
Returned(c, err) ==
    IF err = Nil THEN Nil
    ELSE IF c.op = "BookRepository.DeleteBook" THEN err
    ELSE Errorf(err)

\* The operations the clients call: creates of valid requests, title updates,
\* deletes through the service and directly on the repository, first pages.
ConcCalls ==
    [op : {"CreateBook"}, id : {0}, pageSize : {0},
     req : [title : {"Dune"}, author : CreateAuthors, published : {"1965-08-01"},
            isbn : ISBNs, pages : {MinPages}]]
    \cup [op : {"UpdateBook"}, id : 1 .. MaxIds, pageSize : {0},
          req : {[NoReq EXCEPT !.title = "Emma"]}]
    \cup [op : {"DeleteBook", "BookRepository.DeleteBook"}, id : 1 .. MaxIds,
          pageSize : {0}, req : {NoReq}]
    \cup [op : {"FetchAllBook"}, id : {0}, pageSize : {1, DefaultPageSize}, req : {NoReq}]

\* The operations of clients that only write records: creates of valid
\* requests, updates of the title and updates of the author.
WriterCalls ==
    [op : {"CreateBook"}, id : {0}, pageSize : {0},
     req : [title : {"Dune"}, author : CreateAuthors, published : {"1965-08-01"},
            isbn : ISBNs, pages : {MinPages}]]
    \cup [op : {"UpdateBook"}, id : 1 .. MaxIds, pageSize : {0},
          req : {[NoReq EXCEPT !.title = "Emma"], [NoReq EXCEPT !.author = "Austen"]}]

\* The first statement of an operation.
FirstPc(i, op) ==
    CASE op = "CreateBook" -> "insert"
      [] op \in {"UpdateBook", "DeleteBook"} -> "load"
      [] op = "BookRepository.DeleteBook" -> IF i = "part_001" THEN "delete" ELSE "begin"
      [] op = "FetchAllBook" -> IF i = "part_001" THEN "begin" ELSE "count"

\* The ids of the rows another client's open transaction has deleted and not
\* yet committed: a statement that writes such a row waits for that transaction.
LockedIds(p) == {inflight[q].id : q \in {x \in Clients \ {p} : inflight[x].pc = "commit"}}

IsbnLocked(p, isbn) ==
    \E i \in DOMAIN rows : rows[i].isbn = isbn /\ rows[i].id \in LockedIds(p)

\* Every operation between its reads sees the table states that come to be.
Observed(inf, tbl) ==
    [q \in Clients |->
        IF inf[q].pc \in {"acquire", "page"} THEN [inf[q] EXCEPT !.seen = @ \cup {tbl}]
        ELSE inf[q]]

Inserting == Cardinality({q \in Clients : inflight[q].pc = "insert"})

\* The operations in flight once client p has called k: a CreateBook pairs with
\* the other client's CreateBook of the same ISBN whose INSERT is still to come,
\* a DeleteBook with the other client's DeleteBook of the same id in flight.
Called(p, k) ==
    LET paired == {q \in Clients \ {p} :
                     \/ /\ k.op = "CreateBook"
                        /\ inflight[q].pc = "insert"
                        /\ inflight[q].req.isbn = k.req.isbn
                     \/ /\ k.op = "DeleteBook"
                        /\ inflight[q].op = "DeleteBook"
                        /\ inflight[q].pc \notin {"idle", "done"}
                        /\ inflight[q].id = k.id
                        /\ inflight[q].fresh}
    IN  [q \in Clients |->
            IF q = p
            THEN [NoCall EXCEPT !.op = k.op, !.pc = FirstPc(impl, k.op),
                                !.id = k.id, !.req = k.req,
                                !.pageSize = k.pageSize,
                                !.fresh =
                                    \/ /\ k.op = "CreateBook"
                                       /\ ~UniqueViolation(rows, k.req.isbn, 0)
                                    \/ /\ k.op = "DeleteBook"
                                       /\ \E i \in IndexOf(rows, k.id) : Live(rows[i]),
                                !.overlap = paired # {}]
            ELSE IF q \in paired THEN [inflight[q] EXCEPT !.overlap = TRUE]
            ELSE inflight[q]]

\* A client calls an operation.
Call(p) ==
    /\ last = Idle
    /\ inflight[p].pc = "idle"
    /\ \E k \in ConcCalls :
          /\ k.op = "CreateBook" => nextId + Inserting <= MaxIds
          /\ inflight' = Called(p, k)
    /\ UNCHANGED <<impl, rows, nextId, now, last, free>>

\* A client that only writes records calls an operation.
CallWriter(p) ==
    /\ last = Idle
    /\ inflight[p].pc = "idle"
    /\ \E k \in WriterCalls :
          /\ k.op = "CreateBook" => nextId + Inserting <= MaxIds
          /\ inflight' = Called(p, k)
    /\ UNCHANGED <<impl, rows, nextId, now, last, free>>

\* CreateBook: the INSERT, on a connection the pool lends for the statement.
Insert(p) ==
    /\ inflight[p].pc = "insert"
    /\ \E f \in Faults :
          LET c == inflight[p]
              r == SvcCreateBook(impl, rows, nextId, now, c.req, f)
          IN  /\ f = "ok" => (free > 0 /\ ~IsbnLocked(p, c.req.isbn))
              /\ rows' = r.rows
              /\ nextId' = r.seq
              /\ inflight' = Observed([inflight EXCEPT ![p] =
                                [c EXCEPT !.pc = "done", !.err = r.err, !.book = r.book,
                                          !.faults = <<f>>]], r.rows)
    /\ UNCHANGED <<impl, now, last, free>>

\* UpdateBook and DeleteBook: the service's GetByBookID.  An UpdateBook that
\* loads its record while the other client's UpdateBook of the same id has
\* loaded it and not yet persisted overlaps with it.
Load(p) ==
    /\ inflight[p].pc = "load"
    /\ \E f \in Faults :
          LET c == inflight[p]
              g == Repo_GetByBookID(impl, rows, c.id, f)
              paired == {q \in Clients \ {p} :
                           /\ g.err = Nil
                           /\ c.op = "UpdateBook"
                           /\ inflight[q].op = "UpdateBook"
                           /\ inflight[q].pc = "persist"
                           /\ inflight[q].id = c.id}
          IN  /\ f = "ok" => free > 0
              /\ inflight' =
                    [q \in Clients |->
                        IF q \in paired THEN [inflight[q] EXCEPT !.overlap = TRUE]
                        ELSE IF q # p THEN inflight[q]
                        ELSE IF g.err # Nil
                        THEN [c EXCEPT !.pc = "done", !.err = LoadErr(g.err), !.faults = <<f>>]
                        ELSE IF c.op = "UpdateBook"
                        THEN [c EXCEPT !.pc = "persist", !.book = <<Merge(g.book[1], c.req)>>,
                                       !.faults = <<f>>, !.overlap = paired # {}]
                        ELSE [c EXCEPT !.pc = IF impl = "part_001" THEN "delete" ELSE "begin",
                                       !.faults = <<f>>]]
    /\ UNCHANGED <<impl, rows, nextId, now, last, free>>

\* UpdateBook: the repository's UPDATE of the merged book.
Persist(p) ==
    /\ inflight[p].pc = "persist"
    /\ \E f \in Faults :
          LET c == inflight[p]
              u == Repo_UpdateBook(impl, rows, now, c.book[1], f)
          IN  /\ f = "ok" => (free > 0 /\ c.id \notin LockedIds(p))
              /\ rows' = u.rows
              /\ inflight' = Observed([inflight EXCEPT ![p] =
                                [c EXCEPT !.pc = "done", !.err = Returned(c, u.err),
                                          !.book = IF u.err = Nil THEN <<u.book>> ELSE <<>>,
                                          !.affected =
                                              IF f = "ok" /\ ~ErrorsIs(u.err, ErrBookNotFound)
                                              THEN 1 ELSE 0,
                                          !.faults = Append(c.faults, f)]], u.rows)
    /\ UNCHANGED <<impl, nextId, now, last, free>>

\* pool.Begin: the transaction of DeleteBook in book_repository.go and of
\* FetchAllBook in part_001 takes a connection and keeps it.
Begin(p) ==
    /\ inflight[p].pc = "begin"
    /\ \E f \in Faults :
          LET c == inflight[p]
          IN  /\ f = "ok" => free > 0
              /\ free' = IF f = "ok" THEN free - 1 ELSE free
              /\ inflight' = [inflight EXCEPT ![p] =
                    IF f # "ok"
                    THEN [c EXCEPT !.pc = "done", !.err = Returned(c, Errorf(SqlErr(f))),
                                   !.faults = Append(c.faults, f)]
                    ELSE [c EXCEPT !.pc = IF c.op = "FetchAllBook" THEN "count" ELSE "exec",
                                   !.held = 1, !.tx = "open",
                                   !.faults = Append(c.faults, f)]]
    /\ UNCHANGED <<impl, rows, nextId, now, last>>

\* DeleteBook in book_repository.go: tx.Exec of the DELETE.
Exec(p) ==
    /\ inflight[p].pc = "exec"
    /\ \E f \in Faults :
          LET c == inflight[p]
              e == DeleteExec(rows, c.id, f)
          IN  /\ f = "ok" => c.id \notin LockedIds(p)
              /\ free' = IF e.tx = "open" THEN free ELSE free + 1
              /\ inflight' = [inflight EXCEPT ![p] =
                    [c EXCEPT !.pc = IF e.tx = "open" THEN "commit" ELSE "done",
                              !.err = Returned(c, e.err), !.affected = e.affected,
                              !.tx = e.tx, !.held = IF e.tx = "open" THEN 1 ELSE 0,
                              !.faults = Append(c.faults, f)]]
    /\ UNCHANGED <<impl, rows, nextId, now, last>>

\* DeleteBook in book_repository.go: tx.Commit.
Commit(p) ==
    /\ inflight[p].pc = "commit"
    /\ \E f \in Faults :
          LET c == inflight[p]
              d == DeleteCommit(rows, c.id, f)
          IN  /\ rows' = d.rows
              /\ free' = free + 1
              /\ inflight' = Observed([inflight EXCEPT ![p] =
                                [c EXCEPT !.pc = "done", !.err = Returned(c, d.err),
                                          !.tx = d.tx, !.held = 0,
                                          !.faults = Append(c.faults, f)]], d.rows)
    /\ UNCHANGED <<impl, nextId, now, last>>

\* DeleteBook in part_001: the one UPDATE, outside any transaction.
SoftDelete(p) ==
    /\ inflight[p].pc = "delete"
    /\ \E f \in Faults :
          LET c == inflight[p]
              d == RepoDeleteBook_p1(rows, now, c.id, f)
          IN  /\ f = "ok" => free > 0
              /\ rows' = d.rows
              /\ inflight' = Observed([inflight EXCEPT ![p] =
                                [c EXCEPT !.pc = "done", !.err = Returned(c, d.err),
                                          !.affected =
                                              IF f = "ok" /\ \E i \in IndexOf(rows, c.id) : Live(rows[i])
                                              THEN 1 ELSE 0,
                                          !.faults = Append(c.faults, f)]], d.rows)
    /\ UNCHANGED <<impl, nextId, now, last, free>>

\* FetchAllBook: the count read, on a pool connection in book_repository.go and
\* on the transaction's connection in part_001.
Count(p) ==
    /\ inflight[p].pc = "count"
    /\ \E f \in Faults :
          LET c == inflight[p]
              r == Repo_FetchAllBook(impl, rows, Int64(1), c.pageSize, f, "ok", "asc")
          IN  /\ (f = "ok" /\ c.held = 0) => free > 0
              /\ free' = IF r.err # Nil THEN free + c.held ELSE free
              /\ inflight' = [inflight EXCEPT ![p] =
                    IF r.err # Nil
                    THEN [c EXCEPT !.pc = "done", !.err = Errorf(r.err), !.held = 0,
                                   !.tx = IF c.tx = "open" THEN "rolledback" ELSE c.tx,
                                   !.faults = Append(c.faults, f)]
                    ELSE [c EXCEPT !.pc = IF c.held = 0 THEN "page" ELSE "acquire",
                                   !.total = r.total, !.seen = {rows},
                                   !.faults = Append(c.faults, f)]]
    /\ UNCHANGED <<impl, rows, nextId, now, last>>

\* FetchAllBook in part_001: r.pool.Query takes a second connection from the
\* pool while the transaction keeps the first.
Acquire(p) ==
    /\ inflight[p].pc = "acquire"
    /\ \E f \in Faults :
          LET c == inflight[p]
          IN  /\ f = "ok" => free > 0
              /\ free' = IF f = "ok" THEN free - 1 ELSE free + c.held
              /\ inflight' = [inflight EXCEPT ![p] =
                    IF f # "ok"
                    THEN [c EXCEPT !.pc = "done", !.err = Errorf(Errorf(SqlErr(f))),
                                   !.held = 0, !.tx = "rolledback", !.total = 0,
                                   !.faults = Append(c.faults, f)]
                    ELSE [c EXCEPT !.pc = "page", !.held = c.held + 1,
                                   !.faults = Append(c.faults, f)]]
    /\ UNCHANGED <<impl, rows, nextId, now, last>>

\* FetchAllBook: the page read; in part_001 then the end of the rows (their
\* connection goes back) and the Commit of the transaction.
Page(p) ==
    /\ inflight[p].pc = "page"
    /\ \E f \in Faults, o \in TieOrders :
          LET c == inflight[p]
              r == Repo_FetchAllBook(impl, rows, Int64(1), c.pageSize, "ok", f, o)
          IN  /\ (f = "ok" /\ c.held = 0) => free > 0
              /\ free' = free + c.held
              /\ inflight' = [inflight EXCEPT ![p] =
                    [c EXCEPT !.pc = "done", !.held = 0,
                              !.err = IF r.err # Nil THEN Errorf(r.err) ELSE Nil,
                              !.books = r.books,
                              !.total = IF r.err # Nil THEN 0 ELSE c.total,
                              !.seen = c.seen \cup {rows},
                              !.tx = IF c.tx # "open" THEN c.tx
                                     ELSE IF r.err # Nil THEN "rolledback" ELSE "committed",
                              !.faults = Append(c.faults, f)]]
    /\ UNCHANGED <<impl, rows, nextId, now, last>>

\* The operation has returned to the client.
Return(p) ==
    /\ inflight[p].pc = "done"
    /\ inflight' = [q \in Clients |->
                      IF q = p THEN NoCall ELSE [inflight[q] EXCEPT !.overlap = FALSE]]
    /\ UNCHANGED <<impl, rows, nextId, now, last, free>>

NextConcurrent ==
    \E p \in Clients :
        \/ Call(p)
        \/ Insert(p)
        \/ Load(p)
        \/ Persist(p)
        \/ Begin(p)
        \/ Exec(p)
        \/ Commit(p)
        \/ SoftDelete(p)
        \/ Count(p)
        \/ Acquire(p)
        \/ Page(p)
        \/ Return(p)

Concurrent == Init /\ [][NextConcurrent]_vars

\* Two clients that only create and update records.
NextWriters ==
    \E p \in Clients :
        \/ CallWriter(p)
        \/ Insert(p)
        \/ Load(p)
        \/ Persist(p)
        \/ Return(p)

Writers == Init /\ [][NextWriters]_vars

\* ------------------------------------------------------------------ claims
Step(op) == last.op = "none" /\ last'.op = op

RowsWithout(tbl, id) == SelectSeq(tbl, LAMBDA r : r.id # id)

ListedIds(i, tbl, page, pageSize, o) ==
    LET r == SvcFetchAllBook(i, tbl, page, pageSize, "ok", "ok", o)
    IN  {r.books[k].id : k \in DOMAIN r.books}

\* What a caller sees of a deleted id in table tbl at time t: not found by
\* GetByBookID (and never handed back, whatever the storage answers), on no page
\* and not in the total of FetchAllBook, and not found by another DeleteBook.
Gone(tbl, t, id) ==
    /\ SvcGetByBookID(impl, tbl, id, "ok").err = {SvcErrNotFound}
    /\ handleServiceError(SvcGetByBookID(impl, tbl, id, "ok").err) = StatusNotFound
    /\ \A f \in Faults : SvcGetByBookID(impl, tbl, id, f).book = <<>>
    /\ \A page \in Pages, pageSize \in PageSizes, o \in TieOrders :
          id \notin ListedIds(impl, tbl, page, pageSize, o)
    /\ \A pageSize \in PageSizes :
          SvcFetchAllBook(impl, tbl, Int64(1), pageSize, "ok", "ok", "asc").total
            = SvcFetchAllBook(impl, RowsWithout(tbl, id), Int64(1), pageSize, "ok", "ok", "asc").total
    /\ SvcDeleteBook(impl, tbl, t, id, "ok", "ok").err = {SvcErrNotFound}
    /\ handleServiceError(SvcDeleteBook(impl, tbl, t, id, "ok", "ok").err) = StatusNotFound

\* An id that was handed out and has no live row.
Deleted(tbl, seq, id) == id < seq /\ \A i \in DOMAIN tbl : tbl[i].id = id => ~Live(tbl[i])

\* C1: once DeleteBook(id) has returned success, in every later state
\* GetByBookID(id) answers NotFound, no FetchAllBook page or total includes the
\* record, and another DeleteBook(id) answers NotFound.  Stated inductively:
\* the id is gone right after the successful delete and has no live row; an id
\* that was handed out and has no live row never gets one again; and such an
\* id is gone in every state between two requests (an operation in progress
\* leaves the table, the clock and the id sequence to Respond as they are).
C1_DeletedStaysGone ==
    /\ [][/\ (Step("DeleteBook") /\ last'.err = Nil)
               => (Deleted(rows', nextId', last'.id) /\ Gone(rows', now', last'.id))
          /\ \A id \in 1 .. MaxIds :
                Deleted(rows, nextId, id) => Deleted(rows', nextId', id)]_vars
    /\ [](last = Idle => \A id \in 1 .. MaxIds :
                            Deleted(rows, nextId, id) => Gone(rows, now, id))

C1_Witness ==
    /\ last.op = "DeleteBook"
    /\ last.err = Nil
    /\ Gone(rows, now, last.id)
RowOf(tbl, id) == tbl[CHOOSE i \in DOMAIN tbl : tbl[i].id = id]

HasLive(tbl, id) == \E i \in DOMAIN tbl : tbl[i].id = id /\ Live(tbl[i])

StorageFailed(err) == ErrorsIs(err, DeadlineExceeded)

\* C2: DeleteBook(id) on a live record returns success and only sets
\* deleted_at on the row with that id: the row and its other columns stay,
\* every other row is unchanged, and no operation removes a row.
C2_SoftDelete ==
    [][/\ (Step("DeleteBook") /\ HasLive(rows, last'.id) /\ ~StorageFailed(last'.err))
            => /\ last'.err = Nil
               /\ DOMAIN rows' = DOMAIN rows
               /\ \A i \in DOMAIN rows :
                     IF rows[i].id = last'.id
                     THEN /\ rows'[i].deleted_at # NULL
                          /\ rows'[i] = [rows[i] EXCEPT !.deleted_at = rows'[i].deleted_at]
                     ELSE rows'[i] = rows[i]
       /\ \A i \in DOMAIN rows : \E j \in DOMAIN rows' : rows'[j].id = rows[i].id]_vars

\* C3: UpdateBook(id, request) on a live record with only the title supplied
\* leaves author, isbn, pages and published, stored and returned, as they were.
C3_TitleOnlyFrame ==
    [][(Step("UpdateBook") /\ HasLive(rows, last'.id)
          /\ last'.req = [NoReq EXCEPT !.title = "Emma"])
         => LET old == RowOf(rows, last'.id)
                new == RowOf(rows', last'.id)
            IN  /\ HasLive(rows', last'.id)
                /\ new.author = old.author /\ new.isbn = old.isbn
                /\ new.pages = old.pages /\ new.published = old.published
                /\ last'.err = Nil =>
                      /\ last'.book[1].author = old.author
                      /\ last'.book[1].isbn = old.isbn
                      /\ last'.book[1].pages = old.pages
                      /\ last'.book[1].published = FormatDate(old.published)]_vars

\* C4: after a successful UpdateBook(id, request) every supplied field (title,
\* author, published, isbn non-empty; pages non-zero) has the supplied value in
\* the stored and in the returned record.
C4_SuppliedOverwritten ==
    [][(Step("UpdateBook") /\ last'.err = Nil)
         => LET req == last'.req
                new == RowOf(rows', last'.id)
                ret == last'.book[1]
            IN  /\ req.title # "" => (new.title = req.title /\ ret.title = req.title)
                /\ req.author # "" => (new.author = req.author /\ ret.author = req.author)
                /\ req.isbn # "" => (new.isbn = req.isbn /\ ret.isbn = req.isbn)
                /\ req.published # "" =>
                      (FormatDate(new.published) = req.published
                         /\ ret.published = req.published)
                /\ req.pages # 0 => (new.pages = req.pages /\ ret.pages = req.pages)]_vars

IsInvalidInput(err) ==
    ErrorsIs(err, SvcErrInvalidInput) /\ handleServiceError(err) = StatusBadRequest

\* C5: CreateBook with pages < 5 (zero and negative included) returns
\* InvalidInput, calls no repository method and leaves the table (and the id
\* sequence) as it was.
C5_FewPagesRejected ==
    [][(Step("CreateBook") /\ last'.req.pages < 5)
         => /\ IsInvalidInput(last'.err)
            /\ last'.book = <<>>
            /\ last'.calls = <<>>
            /\ rows' = rows
            /\ nextId' = nextId]_vars

C5_Witness ==
    /\ last.op = "CreateBook"
    /\ validateBookCreateRequest(last.req) = "ok"
    /\ last.req.pages < 5
    /\ IsInvalidInput(last.err)
    /\ last.calls = <<>>

\* C6: in every reachable state every live record has pages >= 5.
C6_LivePagesAtLeast5 == \A i \in DOMAIN rows : Live(rows[i]) => rows[i].pages >= 5

\* C7: a CreateBook whose insert breaks the isbn index (an existing live record
\* has the ISBN) returns an error that is ErrConflict and is answered with 409.
C7_DuplicateIsConflict ==
    [][(Step("CreateBook") /\ last'.calls = <<"CreateBook">>
          /\ UniqueViolation(rows, last'.req.isbn, 0) /\ ~StorageFailed(last'.err))
         => /\ ErrorsIs(last'.err, SvcErrConflict)
            /\ handleServiceError(last'.err) = StatusConflict]_vars

NoDuplicateISBN(tbl) ==
    \A i, j \in DOMAIN tbl :
        (i # j /\ Live(tbl[i]) /\ Live(tbl[j])) => tbl[i].isbn # tbl[j].isbn

\* C8: no two live records ever share an ISBN (UpdateBook included), and after a
\* successful DeleteBook(id) a CreateBook with the deleted record's ISBN succeeds.
C8_ISBNUniqueAndFreed ==
    [][/\ NoDuplicateISBN(rows) /\ NoDuplicateISBN(rows')
       /\ (Step("DeleteBook") /\ last'.err = Nil)
            => \A i \in DOMAIN rows, req \in CreateRequests :
                  (rows[i].id = last'.id /\ req.isbn = rows[i].isbn
                     /\ validateBookCreateRequest(req) = "ok" /\ req.pages >= 5)
                    => SvcCreateBook(impl, rows', nextId', now', req, "ok").err = Nil]_vars

C8_Witness ==
    /\ last.op = "DeleteBook"
    /\ last.err = Nil
    /\ Len(rows) >= 1
    /\ \A i \in DOMAIN rows : Live(rows[i])

\* C9: for id <= 0, GetByBookID, UpdateBook and DeleteBook each return
\* InvalidInput (the service's ErrInvalidInput), call no repository method and
\* leave the table unchanged.
C9_BadIdInvalidInput ==
    [][((Step("GetByBookID") \/ Step("UpdateBook") \/ Step("DeleteBook")) /\ last'.id <= 0)
         => /\ IsInvalidInput(last'.err)
            /\ last'.calls = <<>>
            /\ rows' = rows]_vars

\* The kind the transport reports for an error.
Kind(err) ==
    CASE handleServiceError(err) = StatusNotFound -> "NotFound"
      [] handleServiceError(err) = StatusBadRequest -> "InvalidInput"
      [] handleServiceError(err) = StatusConflict -> "Conflict"
      [] handleServiceError(err) = StatusGatewayTimeout -> "Timeout"
      [] OTHER -> "Internal"

\* C10: the error of every service operation has one of the kinds InvalidInput,
\* NotFound, Conflict, Timeout, Internal and neither is nor wraps a repository
\* error value.
C10_NoRepositoryError ==
    last.err # Nil =>
        /\ Kind(last.err) \in {"InvalidInput", "NotFound", "Conflict", "Timeout", "Internal"}
        /\ last.err \cap RepoErrors = {}

NoFault(ff) == \A k \in DOMAIN ff : ff[k] = "ok"

\* C12: for every page and pageSize, FetchAllBook does not fail when storage does
\* not, and calls the repository with page' = max(page, 1) and a pageSize' in
\* 1 .. 100 that is pageSize when pageSize is in 1 .. 100.
C12_ListBooksClamps ==
    [][Step("FetchAllBook")
         => LET page == last'.args[1]
                pageSize == last'.args[2]
            IN  /\ last'.page = IF Lt64(page, Int64(1)) THEN Int64(1) ELSE page
                /\ last'.pageSize \in 1 .. MaxPageSize
                /\ pageSize \in 1 .. MaxPageSize => last'.pageSize = pageSize
                /\ NoFault(last'.faults) => last'.err = Nil]_vars

\* C13: after a CreateBook that succeeded, GetByBookID on the returned id
\* succeeds and returns id, title, author, published, isbn and pages equal to
\* those CreateBook returned and to those of the request.
C13_CreateGetRoundTrip ==
    [][(Step("CreateBook") /\ last'.err = Nil)
         => LET made == last'.book[1]
                req == last'.req
                g == SvcGetByBookID(impl, rows', made.id, "ok")
            IN  /\ g.err = Nil
                /\ g.book # <<>>
                /\ \A k \in {"id", "title", "author", "published", "isbn", "pages"} :
                      g.book[1][k] = made[k]
                /\ \A k \in {"title", "author", "published", "isbn", "pages"} :
                      g.book[1][k] = req[k]]_vars

\* C14: when the deadline expires in a storage call of an operation, the error
\* the caller gets has context.DeadlineExceeded in its chain and is answered
\* with 504 (Timeout), not 500.
C14_DeadlineIsTimeout ==
    (\E k \in DOMAIN last.faults : last.faults[k] = "deadline")
        => /\ ErrorsIs(last.err, DeadlineExceeded)
           /\ Kind(last.err) = "Timeout"

\* C15: an UpdateBook whose request supplies pages (non-zero) below 5, or a
\* title longer than 200 characters, returns InvalidInput, calls no repository
\* method and leaves the table unchanged.
C15_UpdateValidatesAsCreate ==
    [][(Step("UpdateBook") /\ last'.id > 0
          /\ \/ last'.req.pages # 0 /\ last'.req.pages < MinPages
             \/ Len(last'.req.title) > MaxTitleLen)
         => /\ IsInvalidInput(last'.err)
            /\ last'.calls = <<>>
            /\ rows' = rows]_vars

\* The place of the live row r in the listing: newest first, rows of equal
\* created_at in insertion order (ids are handed out in insertion order).
PlaceOf(tbl, r) ==
    1 + Cardinality({j \in DOMAIN tbl :
                       /\ Live(tbl[j])
                       /\ \/ tbl[j].created_at > r.created_at
                          \/ tbl[j].created_at = r.created_at /\ tbl[j].id < r.id})

LiveCount(tbl) == Cardinality({j \in DOMAIN tbl : Live(tbl[j])})

\* C17: a FetchAllBook(page, pageSize) with page >= 1 and pageSize in 1 .. 100
\* that succeeds returns total = the number of live records and, as page, the
\* live records at places (page-1)*pageSize + 1 .. (page-1)*pageSize + pageSize
\* of the listing by created_at descending with ties in insertion order: only
\* live records, at most pageSize, none when the page is past the end.
C17_ListOrderAndSlice ==
    [][(Step("FetchAllBook") /\ last'.err = Nil
          /\ last'.args[1] \in {Int64(1), Int64(2)} /\ last'.args[2] \in 1 .. MaxPageSize)
         => LET skip == (last'.args[1][4] - 1) * last'.args[2]
                n == LiveCount(rows)
                left == IF n > skip THEN n - skip ELSE 0
            IN  /\ last'.total = n
                /\ Len(last'.books) = IF left < last'.args[2] THEN left ELSE last'.args[2]
                /\ \A k \in DOMAIN last'.books :
                      /\ HasLive(rows, last'.books[k].id)
                      /\ last'.books[k] = BookOf(RowOf(rows, last'.books[k].id))
                      /\ PlaceOf(rows, RowOf(rows, last'.books[k].id)) = skip + k]_vars

Finishes(p, ops, pcs) ==
    /\ inflight[p].op \in ops
    /\ inflight[p].pc \in pcs
    /\ inflight'[p].pc = "done"

\* C11: an UpdateBook whose target is not a live record when it loads it, or is
\* no longer one when it persists (a DeleteBook of another client took effect in
\* between), returns NotFound and changes no row.
C11_UpdateOfDeletedIsNotFound ==
    [][\A p \in Clients :
          (Finishes(p, {"UpdateBook"}, {"load", "persist"})
             /\ ~HasLive(rows, inflight[p].id) /\ NoFault(inflight'[p].faults))
            => /\ ErrorsIs(inflight'[p].err, SvcErrNotFound)
               /\ Kind(inflight'[p].err) = "NotFound"
               /\ rows' = rows]_vars

\* C16: the total and the page a FetchAllBook returns are those of one table
\* state S among the states the table had between its two reads.
C16_FetchAllSnapshot ==
    \A p \in Clients :
        LET c == inflight[p]
        IN  (c.op = "FetchAllBook" /\ c.pc = "done" /\ c.err = Nil)
              => \E S \in c.seen, o \in TieOrders :
                    LET r == SvcFetchAllBook(impl, S, Int64(1), c.pageSize, "ok", "ok", o)
                    IN  c.total = r.total /\ c.books = r.books

BothCreated(p, q) ==
    /\ p # q
    /\ inflight[p].op = "CreateBook" /\ inflight[q].op = "CreateBook"
    /\ inflight[p].pc = "done" /\ inflight[q].pc = "done"
    /\ inflight[p].req.isbn = inflight[q].req.isbn
    /\ inflight[p].fresh /\ inflight[q].fresh
    /\ inflight[p].overlap /\ inflight[q].overlap
    /\ NoFault(inflight[p].faults) /\ NoFault(inflight[q].faults)

\* C19: of two concurrent CreateBook calls with the same ISBN that no live
\* record has, exactly one succeeds and its row is the only one with the ISBN;
\* the error of the other is the repository's ErrDuplicateISBN.
C19_OneCreateWins ==
    \A p, q \in Clients :
        BothCreated(p, q)
          => /\ (inflight[p].err = Nil) # (inflight[q].err = Nil)
             /\ inflight[p].err # Nil => ErrorsIs(inflight[p].err, ErrDuplicateISBN)
             /\ Cardinality({i \in DOMAIN rows :
                               Live(rows[i]) /\ rows[i].isbn = inflight[p].req.isbn}) = 1

C19_Witness ==
    \E p, q \in Clients : BothCreated(p, q) /\ inflight[p].err = Nil /\ inflight[q].err # Nil

\* C20: an operation holds at most one pool connection at any moment, holds
\* none when it has returned, and never waits for a connection while holding
\* one; the pool's connections are all either free or held by an operation.
C20_OneConnection ==
    /\ \A p \in Clients :
          /\ inflight[p].held <= 1
          /\ inflight[p].pc \in {"idle", "done"} => inflight[p].held = 0
          /\ inflight[p].pc = "acquire" => inflight[p].held = 0
    /\ \E p, q \in Clients :
          p # q /\ free + inflight[p].held + inflight[q].held = PoolMaxConns

Ids(tbl) == {tbl[i].id : i \in DOMAIN tbl}

\* C21: every record's id is positive and no two records share one; an id
\* appears in the table only by a CreateBook, and then it is an id never handed
\* out before (every id handed out so far, those of deleted records included,
\* is below nextId, which never goes back); UpdateBook leaves the id of every
\* row as it was and changes no row but the one with the id it was called for.
C21_IdAssignedOnce ==
    [][/\ \A i \in DOMAIN rows' : rows'[i].id >= FirstId /\ rows'[i].id < nextId'
       /\ \A i, j \in DOMAIN rows' : rows'[i].id = rows'[j].id => i = j
       /\ nextId' >= nextId
       /\ \A id \in Ids(rows') \ Ids(rows) :
             /\ Step("CreateBook") /\ last'.err = Nil
             /\ id >= nextId
             /\ last'.book[1].id = id
       /\ Step("UpdateBook")
             => /\ Len(rows') = Len(rows)
                /\ \A i \in DOMAIN rows :
                      /\ rows'[i].id = rows[i].id
                      /\ rows[i].id # last'.id => rows'[i] = rows[i]
                /\ last'.err = Nil => last'.book[1].id = last'.id]_vars

\* Record 2, created after record 1 was deleted, has been updated.
C21_Witness ==
    /\ last.op = "UpdateBook"
    /\ last.err = Nil
    /\ last.id = 2
    /\ rows # <<>>
    /\ \A i \in DOMAIN rows : rows[i].id = 2 /\ rows[i].title = "Emma"

\* Two DeleteBook calls of one id, both made while the record was live and
\* while the other was in flight, both returned, no statement of either failed.
BothDeleted(p, q) ==
    /\ p # q
    /\ inflight[p].op = "DeleteBook" /\ inflight[q].op = "DeleteBook"
    /\ inflight[p].pc = "done" /\ inflight[q].pc = "done"
    /\ inflight[p].id = inflight[q].id
    /\ inflight[p].fresh /\ inflight[q].fresh
    /\ inflight[p].overlap /\ inflight[q].overlap
    /\ NoFault(inflight[p].faults) /\ NoFault(inflight[q].faults)

\* C22: of two concurrent DeleteBook calls of the same live record, exactly one
\* returns success and the other NotFound, neither an Internal error; the
\* record is no longer live and exactly one of the two calls deleted it.
C22_OneDeleteWins ==
    \A p, q \in Clients :
        BothDeleted(p, q)
          => /\ (inflight[p].err = Nil) # (inflight[q].err = Nil)
             /\ inflight[p].err # Nil => Kind(inflight[p].err) = "NotFound"
             /\ ~HasLive(rows, inflight[p].id)
             /\ inflight[p].affected + inflight[q].affected = 1

\* p persists its UpdateBook after the UpdateBook of q on the same record has
\* persisted, both having loaded the record before either persisted; no
\* statement of either failed.
PersistsLast(p, q) ==
    /\ p # q
    /\ Finishes(p, {"UpdateBook"}, {"persist"})
    /\ inflight[q].op = "UpdateBook" /\ inflight[q].pc = "done"
    /\ inflight[q].id = inflight[p].id
    /\ inflight[p].overlap /\ inflight[q].overlap
    /\ NoFault(inflight'[p].faults) /\ NoFault(inflight[q].faults)

\* C23: when two UpdateBook calls on one live record have both loaded it before
\* either persists, both return success, the stored record is the merged
\* record of the call that persisted last (the record it loaded with its own
\* request over it) and is what that call returns, and a field only the
\* earlier writer supplied, stored by the earlier writer, is back at the value
\* the later writer loaded.
C23_LastWriterWins ==
    [][\A p, q \in Clients :
          PersistsLast(p, q)
            => LET merged == inflight[p].book[1]
                   id == inflight[p].id
               IN  /\ inflight'[p].err = Nil /\ inflight[q].err = Nil
                   /\ HasLive(rows', id)
                   /\ \A k \in {"title", "author", "published", "isbn", "pages"} :
                         /\ BookOf(RowOf(rows', id))[k] = merged[k]
                         /\ inflight'[p].book[1][k] = merged[k]
                   /\ \A k \in {"title", "author", "isbn"} :
                         (inflight[q].req[k] # "" /\ inflight[p].req[k] = "")
                           => /\ RowOf(rows, id)[k] = inflight[q].req[k]
                              /\ RowOf(rows', id)[k] = merged[k]
                   /\ \A i \in DOMAIN rows : rows[i].id # id => rows'[i] = rows[i]]_vars

\* Both updates have returned success; the later one supplied only the author
\* and the title the earlier one had stored is lost.
C23_Witness ==
    \E p, q \in Clients :
        /\ p # q
        /\ inflight[p].op = "UpdateBook" /\ inflight[q].op = "UpdateBook"
        /\ inflight[p].pc = "done" /\ inflight[q].pc = "done"
        /\ inflight[p].id = inflight[q].id
        /\ inflight[p].overlap /\ inflight[q].overlap
        /\ inflight[p].err = Nil /\ inflight[q].err = Nil
        /\ inflight[q].req.title = "Emma" /\ inflight[p].req.author = "Austen"
        /\ HasLive(rows, inflight[p].id)
        /\ RowOf(rows, inflight[p].id).title = "Dune"
        /\ RowOf(rows, inflight[p].id).author = "Austen"
====
